---- MODULE Spec2Model ----
(***************************************************************************)
(* Octree colour quantization of image_palette (src/src/lib.rs).           *)
(*                                                                         *)
(* One call of OcTree::load_with_maxcolor is modelled as a state machine:  *)
(* Open (construction of the tree, decoding, ImageData::try_from), then    *)
(* one AddColor step per pixel, ReduceTree steps while leaf_num exceeds    *)
(* max_color, and Finish (colors_stats, the list, the sort, the return).   *)
(* ReRun calls the function a second time on the same file.                *)
(*                                                                         *)
(* A node is identified by its path from the root (the sequence of octant  *)
(* indices taken), which stands for the Rc<RefCell<Node>> address; the     *)
(* children array of a node is the set of octants that are Some.           *)
(***************************************************************************)
EXTENDS Integers, Sequences, FiniteSets, TLC

VARIABLES
    file,          \* the file at `path`: what image::open yields for it
    max_color,     \* the max_color argument
    pc,            \* "call" | "for" | "while" | "returned" | "panicked" | "overflowed"
    run,           \* which call of load_with_maxcolor this is (1 or 2)
    nodes,         \* the tree under root_share: path -> Node
    leaf_num,      \* OcTree.leaf_num
    to_reduce,     \* OcTree.to_reduce: level -> sequence of node paths
    image_data,    \* ImageData {data, width, height}
    next,          \* number of elements of image_data.data consumed by the for loop
    reduce_calls,  \* reduce_tree calls made in this run (saturates at MaxReduceCalls)
    result,        \* what the call returned
    prev           \* what the previous call returned

vars == <<file, max_color, pc, run, nodes, leaf_num, to_reduce, image_data,
          next, reduce_calls, result, prev>>

----------------------------------------------------------------------------
(* Bounds of the model *)

MaxPixels == 3
MaxBudget == 2
MaxReduceCalls == 3

(* The colours the pixels are drawn from: scenario A's colour, a colour that
   differs from it only in the least-significant bit of red, one that differs
   in bit 1 of blue (a sibling leaf), and scenario B's two colours, which lie
   in two other octants of the root. *)
Colors == { <<10, 20, 30>>, <<11, 20, 30>>, <<10, 20, 28>>, <<255, 0, 0>>, <<0, 255, 0>> }
Alphas == { 0, 255 }
Heights == { 1 }

(* Program constants *)
DefaultMaxColor == 16

Budgets == (0 .. MaxBudget) \cup { DefaultMaxColor }

----------------------------------------------------------------------------
(* Inputs: the files image::open can be given *)

PixelsOf(color) ==
    CASE color = "Rgb8"  -> Colors
      [] color = "Rgba8" -> { c \o <<a>> : c \in Colors, a \in Alphas }
      [] OTHER           -> { <<0>> }

Dims == { d \in (1 .. MaxPixels) \X Heights : d[1] * d[2] <= MaxPixels }

Images ==
    UNION { { [color |-> k, width |-> d[1], height |-> d[2], pixels |-> px] :
                px \in [1 .. d[1] * d[2] -> PixelsOf(k)] } :
            k \in { "Rgb8", "Rgba8", "L8" }, d \in Dims }

NoImage == [color |-> "none", width |-> 0, height |-> 0, pixels |-> <<>>]

Files ==
    { [open |-> "Ok", image |-> img] : img \in Images }
      \cup { [open |-> e, image |-> NoImage] : e \in { "Unsupported", "IoError", "Other" } }

----------------------------------------------------------------------------
(* Values *)

RGBFrom(p) == [r |-> p[1], g |-> p[2], b |-> p[3]]

NodeNew ==
    [is_leaf |-> FALSE, r |-> 0, g |-> 0, b |-> 0, pixel_count |-> 0, children |-> {}]

NoResult == [status |-> "none", err |-> "", list |-> <<>>, width |-> 0, height |-> 0]

Err(e) == [status |-> "Err", err |-> e, list |-> <<>>, width |-> 0, height |-> 0]

Ok(list, w, h) == [status |-> "Ok", err |-> "", list |-> list, width |-> w, height |-> h]

EmptyImageData == [data |-> <<>>, width |-> 0, height |-> 0]

(* u32. A u32 is held as the 32-bit integer with the same bits: a value below
   2^31 is itself, a value v from 2^31 on is the negative number v - 2^32.
   U32Hi and U32Lo are the upper and the lower 16 bits of the value, U32Of
   puts a value together from them. *)
U32Hi(a) == (a \div 65536) % 65536

U32Lo(a) == a % 65536

U32Of(hi, lo) == IF hi < 32768 THEN hi * 65536 + lo ELSE (hi - 65536) * 65536 + lo

(* a < b as u32 values *)
U32Less(a, b) ==
    \/ U32Hi(a) < U32Hi(b)
    \/ U32Hi(a) = U32Hi(b) /\ U32Lo(a) < U32Lo(b)

(* An integer that orders as the u32 value does (a.cmp(&b) of two u32). *)
U32Key(a) == IF a >= 0 THEN a - 2147483647 - 1 ELSE a + 2147483647 + 1

(* u32 arithmetic. Where a + b >= 2^32, a < b or a * b >= 2^32 the debug build
   panics ("attempt to add / subtract / multiply with overflow") and the
   release build wraps modulo 2^32: U32Add, U32Sub and U32Mul give the wrapped
   value, U32AddOverflows, U32SubOverflows and U32MulOverflows say that the
   debug build panics. *)
U32AddOverflows(a, b) ==
    U32Hi(a) + U32Hi(b) + (U32Lo(a) + U32Lo(b)) \div 65536 >= 65536

U32Add(a, b) ==
    LET lo == U32Lo(a) + U32Lo(b)
        hi == U32Hi(a) + U32Hi(b) + lo \div 65536
    IN  U32Of(hi % 65536, lo % 65536)

U32SubOverflows(a, b) == U32Less(a, b)

U32Sub(a, b) ==
    LET lo == U32Lo(a) - U32Lo(b)
        hi == U32Hi(a) - U32Hi(b) + lo \div 65536
    IN  U32Of(hi % 65536, lo % 65536)

U32MulOverflows(a, b) ==
    \/ U32Hi(a) * U32Hi(b) >= 1
    \/ U32Hi(a) * U32Lo(b) + U32Lo(a) * U32Hi(b) + (U32Lo(a) * U32Lo(b)) \div 65536 >= 65536

U32Mul(a, b) ==
    LET lo == U32Lo(a) * U32Lo(b)
        hi == U32Hi(a) * U32Lo(b) + U32Lo(a) * U32Hi(b) + lo \div 65536
    IN  U32Of(hi % 65536, lo % 65536)

(* a / b of two u32 values, b # 0. Where a is 2^31 or more and b is 2 or more,
   h is half the value of a, so that the value of a is 2 * h + a % 2, and the
   quotient is 2 * (h \div b), or one more when the remainder
   2 * (h % b) + a % 2 reaches b. *)
U32Div(a, b) ==
    IF b < 0 THEN (IF U32Less(a, b) THEN 0 ELSE 1)
    ELSE IF a >= 0 THEN a \div b
    ELSE IF b = 1 THEN a
    ELSE LET h == (a \div 2) + 2147483647 + 1
             m == h % b
         IN  IF m >= b - m - (a % 2) THEN 2 * (h \div b) + 1 ELSE 2 * (h \div b)

(* What a handler with u32 arithmetic can do: run exactly, or, where an
   operation overflowed, panic (debug build) or go on with the wrapped value
   (release build). *)
Outcomes(overflow) == IF overflow THEN { "panic", "wrap" } ELSE { "exact" }

(* An ascending sort that leaves equal keys in the reverse of their order. *)
SortByKeysTiesReversed(s, k) ==
    LET n == Len(s)
        rank(i) == Cardinality({ j \in 1 .. n : k[j] < k[i] \/ (k[j] = k[i] /\ j > i) }) + 1
    IN  [p \in 1 .. n |-> s[CHOOSE i \in 1 .. n : rank(i) = p]]

(* A stable ascending sort of s by the keys k (k[i] is the key of s[i]). *)
StableSortByKeys(s, k) ==
    LET n == Len(s)
        rank(i) == Cardinality({ j \in 1 .. n : k[j] < k[i] \/ (k[j] = k[i] /\ j < i) }) + 1
    IN  [p \in 1 .. n |-> s[CHOOSE i \in 1 .. n : rank(i) = p]]

----------------------------------------------------------------------------
(* OcTree: a tree state is [nodes, leaf_num, to_reduce, overflow]; overflow says
   that a u32 operation on the tree has overflowed. *)

OcTreeStale ==
    [nodes |-> nodes, leaf_num |-> leaf_num, to_reduce |-> to_reduce, overflow |-> FALSE]

(* The tree of lines 58-63 with the root of lines 73-74. *)
OcTreeNew ==
    [nodes |-> <<>> :> NodeNew, leaf_num |-> 0, to_reduce |-> [l \in 0 .. 7 |-> <<>>],
     overflow |-> FALSE]

(* The key sort_by_key reads for each element of a to_reduce level. *)
PixelCountKeys(ns, s) == [i \in 1 .. Len(s) |-> U32Key(ns[s[i]].pixel_count)]

create_node_counts_all(t, id, level) ==
    IF level = 7
    THEN [t EXCEPT !.nodes = (id :> [NodeNew EXCEPT !.is_leaf = TRUE]) @@ t.nodes,
                   !.leaf_num = U32Add(t.leaf_num, 1),
                   !.overflow = @ \/ U32AddOverflows(t.leaf_num, 1)]
    ELSE LET ns == (id :> NodeNew) @@ t.nodes
             pushed == Append(t.to_reduce[level], id)
         IN  [t EXCEPT !.nodes = ns,
                       !.leaf_num = U32Add(t.leaf_num, 1),
                       !.overflow = @ \/ U32AddOverflows(t.leaf_num, 1),
                       !.to_reduce[level] = StableSortByKeys(pushed, PixelCountKeys(ns, pushed))]

(* create_node: the node allocated at address id (the new child's path). *)
create_node(t, id, level) ==
    IF level = 7
    THEN [t EXCEPT !.nodes = (id :> [NodeNew EXCEPT !.is_leaf = TRUE]) @@ t.nodes,
                   !.leaf_num = U32Add(t.leaf_num, 1),
                   !.overflow = @ \/ U32AddOverflows(t.leaf_num, 1)]
    ELSE LET ns == (id :> NodeNew) @@ t.nodes
             pushed == Append(t.to_reduce[level], id)
         IN  [t EXCEPT !.nodes = ns,
                       !.to_reduce[level] = StableSortByKeys(pushed, PixelCountKeys(ns, pushed))]

BitShiftedByOne(c, level) == (c \div (2 ^ (6 - level))) % 2

(* rgb.c >> (7 - level) & 1 *)
Bit(c, level) == (c \div (2 ^ (7 - level))) % 2

OctantIndex(rgb, level) ==
    Bit(rgb.r, level) * 4 + Bit(rgb.g, level) * 2 + Bit(rgb.b, level)

FoldColorSwapped(node, rgb) ==
    [node EXCEPT !.pixel_count = U32Add(@, 1),
                 !.r = U32Add(@, rgb.g),
                 !.g = U32Add(@, rgb.g),
                 !.b = U32Add(@, rgb.b)]

FoldColorNoCount(node, rgb) ==
    [node EXCEPT !.r = U32Add(@, rgb.r),
                 !.g = U32Add(@, rgb.g),
                 !.b = U32Add(@, rgb.b)]

(* The leaf branch of add_color. *)
FoldColor(node, rgb) ==
    [node EXCEPT !.pixel_count = U32Add(@, 1),
                 !.r = U32Add(@, rgb.r),
                 !.g = U32Add(@, rgb.g),
                 !.b = U32Add(@, rgb.b)]

(* One of the four += of the leaf branch overflows. *)
FoldOverflows(node, rgb) ==
    \/ U32AddOverflows(node.pixel_count, 1)
    \/ U32AddOverflows(node.r, rgb.r)
    \/ U32AddOverflows(node.g, rgb.g)
    \/ U32AddOverflows(node.b, rgb.b)

RECURSIVE add_color_descends(_, _, _, _)
add_color_descends(t, id, rgb, level) ==
    LET node == t.nodes[id] IN
    IF node.is_leaf /\ level = 7
    THEN [t EXCEPT !.nodes[id] = FoldColor(node, rgb),
                   !.overflow = @ \/ FoldOverflows(node, rgb)]
    ELSE LET idx   == OctantIndex(rgb, level)
             child == Append(id, idx)
             t1    == IF idx \notin node.children
                      THEN LET t0 == create_node(t, child, level + 1)
                           IN  [t0 EXCEPT !.nodes[id].children = @ \cup { idx }]
                      ELSE t
         IN  add_color_descends(t1, child, rgb, level + 1)

RECURSIVE add_color(_, _, _, _)
add_color(t, id, rgb, level) ==
    LET node == t.nodes[id] IN
    IF node.is_leaf
    THEN [t EXCEPT !.nodes[id] = FoldColor(node, rgb),
                   !.overflow = @ \/ FoldOverflows(node, rgb)]
    ELSE LET idx   == OctantIndex(rgb, level)
             child == Append(id, idx)
             t1    == IF idx \notin node.children
                      THEN LET t0 == create_node(t, child, level + 1)
                           IN  [t0 EXCEPT !.nodes[id].children = @ \cup { idx }]
                      ELSE t
         IN  add_color(t1, child, rgb, level + 1)

ShallowestLevel(tr, lv) ==
    IF \E l \in 0 .. lv : Len(tr[l]) > 0
    THEN CHOOSE l \in 0 .. lv : Len(tr[l]) > 0 /\ \A m \in 0 .. l - 1 : Len(tr[m]) = 0
    ELSE -1

(* The scan of lines 136-140. *)
RECURSIVE DeepestLevel(_, _)
DeepestLevel(tr, lv) ==
    IF lv >= 0 /\ Len(tr[lv]) = 0 THEN DeepestLevel(tr, lv - 1) ELSE lv

MergeChildrenLastOnly(ns, id, i, acc) ==
    LET cs == ns[id].children
        k  == Cardinality(cs)
        c  == ns[Append(id, CHOOSE m \in cs : \A o \in cs : o <= m)]
    IN  IF cs = {} THEN acc
        ELSE [r |-> c.r, g |-> c.g, b |-> c.b, pixel_count |-> c.pixel_count,
              leaf_num |-> U32Sub(acc.leaf_num, k),
              overflow |-> acc.overflow \/ U32SubOverflows(acc.leaf_num, k)]

(* The loop of lines 154-166 from child i on; acc is [r, g, b, pixel_count,
   leaf_num, overflow]. *)
RECURSIVE MergeChildren(_, _, _, _)
MergeChildren(ns, id, i, acc) ==
    IF i > 7 THEN acc
    ELSE IF i \notin ns[id].children THEN MergeChildren(ns, id, i + 1, acc)
    ELSE LET child == ns[Append(id, i)]
         IN  MergeChildren(ns, id, i + 1,
                 [r           |-> U32Add(acc.r, child.r),
                  g           |-> U32Add(acc.g, child.g),
                  b           |-> U32Add(acc.b, child.b),
                  pixel_count |-> U32Add(acc.pixel_count, child.pixel_count),
                  leaf_num    |-> U32Sub(acc.leaf_num, 1),
                  overflow    |-> \/ acc.overflow
                                  \/ U32AddOverflows(acc.r, child.r)
                                  \/ U32AddOverflows(acc.g, child.g)
                                  \/ U32AddOverflows(acc.b, child.b)
                                  \/ U32AddOverflows(acc.pixel_count, child.pixel_count)
                                  \/ U32SubOverflows(acc.leaf_num, 1)])

reduce_tree_keeps_registered(t) ==
    LET lv == DeepestLevel(t.to_reduce, 6) IN
    IF lv < 0 THEN t
    ELSE LET s   == t.to_reduce[lv]
             id  == s[Len(s)]
             acc == MergeChildren(t.nodes, id, 0,
                        [r |-> 0, g |-> 0, b |-> 0, pixel_count |-> 0,
                         leaf_num |-> t.leaf_num, overflow |-> t.overflow])
         IN  [nodes     |-> [t.nodes EXCEPT ![id] =
                                [@ EXCEPT !.is_leaf = TRUE, !.r = acc.r, !.g = acc.g,
                                          !.b = acc.b, !.pixel_count = acc.pixel_count]],
              leaf_num  |-> U32Add(acc.leaf_num, 1),
              to_reduce |-> t.to_reduce,
              overflow  |-> acc.overflow \/ U32AddOverflows(acc.leaf_num, 1)]

reduce_tree(t) ==
    LET lv == DeepestLevel(t.to_reduce, 6) IN
    IF lv < 0 THEN t
    ELSE LET s   == t.to_reduce[lv]
             id  == s[Len(s)]
             acc == MergeChildren(t.nodes, id, 0,
                        [r |-> 0, g |-> 0, b |-> 0, pixel_count |-> 0,
                         leaf_num |-> t.leaf_num, overflow |-> t.overflow])
         IN  [nodes     |-> [t.nodes EXCEPT ![id] =
                                [@ EXCEPT !.is_leaf = TRUE, !.r = acc.r, !.g = acc.g,
                                          !.b = acc.b, !.pixel_count = acc.pixel_count]],
              leaf_num  |-> U32Add(acc.leaf_num, 1),
              to_reduce |-> [t.to_reduce EXCEPT ![lv] = SubSeq(s, 1, Len(s) - 1)],
              overflow  |-> acc.overflow \/ U32AddOverflows(acc.leaf_num, 1)]

OverBudgetOffByOne(ln, mc) == ln > mc + 1

(* The condition of the while loop of line 79. *)
OverBudget(ln, mc) == U32Less(mc, ln)

----------------------------------------------------------------------------
(* Aggregation *)

(* (node.c / node.pixel_count) as u8 *)
MeanRounded(sum, count) == ((sum + count \div 2) \div count) % 256

(* (sum / count) as u8 *)
Mean(sum, count) == U32Div(sum, count) % 256

LeafColor(node) ==
    [r |-> Mean(node.r, node.pixel_count),
     g |-> Mean(node.g, node.pixel_count),
     b |-> Mean(node.b, node.pixel_count)]

(* Lines 185-189: add to the entry of rgb, or insert it. *)
MapAdd(map, rgb, count) ==
    IF rgb \in DOMAIN map
    THEN [map EXCEPT ![rgb] = U32Add(@, count)]
    ELSE (rgb :> count) @@ map

(* The leaves colors_stats reaches from the node id, in the order it reaches
   them: a leaf stops the descent (line 180), a branch is followed through
   its Some children in octant order 0..7 (lines 191-195). *)
RECURSIVE LeavesInOrder(_, _)
LeavesInOrder(ns, id) ==
    IF ns[id].is_leaf THEN << id >>
    ELSE LET sub(i) == IF i \in ns[id].children
                       THEN LeavesInOrder(ns, Append(id, i))
                       ELSE << >>
         IN  sub(0) \o sub(1) \o sub(2) \o sub(3) \o sub(4) \o sub(5) \o sub(6) \o sub(7)

(* The map after the leaves ls[k..] have been entered into it (lines 181-189). *)
RECURSIVE StatsOver(_, _, _, _)
StatsOver(ns, ls, k, map) ==
    IF k > Len(ls) THEN map
    ELSE StatsOver(ns, ls, k + 1,
                   MapAdd(map, LeafColor(ns[ls[k]]), ns[ls[k]].pixel_count))

colors_stats(ns, id, map) == StatsOver(ns, LeavesInOrder(ns, id), 1, map)

(* The addition of line 186 overflows for one of the leaves ls[k..]. *)
RECURSIVE StatsOverflows(_, _, _, _)
StatsOverflows(ns, ls, k, map) ==
    IF k > Len(ls) THEN FALSE
    ELSE LET rgb   == LeafColor(ns[ls[k]])
             count == ns[ls[k]].pixel_count
         IN  \/ rgb \in DOMAIN map /\ U32AddOverflows(map[rgb], count)
             \/ StatsOverflows(ns, ls, k + 1, MapAdd(map, rgb, count))

(* colors_stats divides by the pixel_count of every leaf it reaches. *)
DividesByZero(ns) ==
    LET ls == LeavesInOrder(ns, <<>>)
    IN  \E k \in 1 .. Len(ls) : ns[ls[k]].pixel_count = 0

(* The orders in which the HashMap can yield its entries (lines 87-89). *)
IterationOrders(map) ==
    LET n == Cardinality(DOMAIN map)
    IN  { o \in [1 .. n -> DOMAIN map] : \A i, j \in 1 .. n : o[i] = o[j] => i = j }

RecordList(map, order) ==
    [i \in 1 .. Len(order) |-> [rgb |-> order[i], count |-> map[order[i]]]]

SortByCountAscending(list) ==
    StableSortByKeys(list, [i \in 1 .. Len(list) |-> list[i].count])

(* list.sort_by(|a, b| b.count.cmp(&a.count)) *)
SortByCount(list) ==
    StableSortByKeys(list, [i \in 1 .. Len(list) |-> -1 - U32Key(list[i].count)])

----------------------------------------------------------------------------
(* ImageData *)

OpaqueOrNot(p) == p[4] >= 0

(* The filter of line 236. *)
Opaque(p) == p[4] > 0

(* ImageData::from(&RgbImage), ImageData::from(&RgbaImage) *)
ImageDataFrom(image) ==
    LET kept == IF image.color = "Rgba8"
                THEN SelectSeq(image.pixels, Opaque)
                ELSE image.pixels
    IN  [data   |-> [i \in 1 .. Len(kept) |-> RGBFrom(kept[i])],
         width  |-> image.width,
         height |-> image.height]

(* let size = (width * height) as usize (lines 214, 234) overflows. In the
   release build the wrapped product is only the capacity the Vec starts with. *)
SizeOverflows(image) == U32MulOverflows(image.width, image.height)

(* The map_err of lines 65-69. *)
OpenError(e) ==
    CASE e = "Unsupported" -> "UnsupportedFile"
      [] e = "IoError"     -> "IoError"
      [] OTHER             -> "Unknown"

----------------------------------------------------------------------------
(* The driver: OcTree::load_with_maxcolor *)

(* Before the first call: the inputs are chosen, no tree has been built yet
   (the tree variables hold an empty tree until Open constructs one). *)
Init ==
    /\ file \in Files
    /\ max_color \in Budgets
    /\ pc = "call"
    /\ run = 1
    /\ nodes = << >> :> NodeNew
    /\ leaf_num = 0
    /\ to_reduce = [l \in 0 .. 7 |-> << >>]
    /\ image_data = EmptyImageData
    /\ next = 0
    /\ reduce_calls = 0
    /\ result = NoResult
    /\ prev = NoResult

(* The for loop is at its head: before the first pixel, or when the while
   loop of the previous pixel has exited. *)
AtForHead ==
    \/ pc = "for"
    \/ pc = "while" /\ ~OverBudget(leaf_num, max_color)

(* Lines 58-74: the tree, image::open, ImageData::try_from, the root. *)
Open ==
    /\ pc = "call"
    /\ LET t == OcTreeNew
       IN  /\ nodes' = t.nodes
           /\ leaf_num' = t.leaf_num
           /\ to_reduce' = t.to_reduce
    /\ next' = 0
    /\ reduce_calls' = 0
    /\ IF file.open # "Ok"
       THEN /\ result' = Err(OpenError(file.open))
            /\ image_data' = EmptyImageData
            /\ pc' = "returned"
       ELSE IF file.image.color \notin { "Rgb8", "Rgba8" }
       THEN /\ result' = Err("UnsupportedType")
            /\ image_data' = EmptyImageData
            /\ pc' = "returned"
       ELSE \E outcome \in Outcomes(SizeOverflows(file.image)) :
                IF outcome = "panic"
                THEN /\ result' = NoResult
                     /\ image_data' = EmptyImageData
                     /\ pc' = "overflowed"
                ELSE /\ result' = NoResult
                     /\ image_data' = ImageDataFrom(file.image)
                     /\ pc' = "for"
    /\ UNCHANGED <<file, max_color, run, prev>>

(* Line 77: tree.add_color(&root_share, color, 0) for the next colour. *)
AddColor ==
    /\ AtForHead
    /\ next < Len(image_data.data)
    /\ LET t == add_color([nodes |-> nodes, leaf_num |-> leaf_num, to_reduce |-> to_reduce,
                           overflow |-> FALSE],
                          <<>>, image_data.data[next + 1], 0)
       IN  \E outcome \in Outcomes(t.overflow) :
               IF outcome = "panic"
               THEN /\ pc' = "overflowed"
                    /\ UNCHANGED <<nodes, leaf_num, to_reduce, next>>
               ELSE /\ nodes' = t.nodes
                    /\ leaf_num' = t.leaf_num
                    /\ to_reduce' = t.to_reduce
                    /\ next' = next + 1
                    /\ pc' = "while"
    /\ UNCHANGED <<file, max_color, run, image_data, reduce_calls, result, prev>>

(* Lines 79-81: one iteration of the while loop. *)
ReduceTree ==
    /\ pc = "while"
    /\ OverBudget(leaf_num, max_color)
    /\ LET t == reduce_tree([nodes |-> nodes, leaf_num |-> leaf_num, to_reduce |-> to_reduce,
                             overflow |-> FALSE])
       IN  \E outcome \in Outcomes(t.overflow) :
               IF outcome = "panic"
               THEN /\ pc' = "overflowed"
                    /\ UNCHANGED <<nodes, leaf_num, to_reduce>>
               ELSE /\ nodes' = t.nodes
                    /\ leaf_num' = t.leaf_num
                    /\ to_reduce' = t.to_reduce
                    /\ pc' = pc
    /\ reduce_calls' = IF reduce_calls < MaxReduceCalls THEN reduce_calls + 1 ELSE reduce_calls
    /\ UNCHANGED <<file, max_color, run, image_data, next, result, prev>>

(* Lines 84-91: colors_stats, the list in the map's iteration order, the sort,
   the return. A leaf with pixel_count 0 makes colors_stats panic; so does, in
   the debug build, a count that overflows. *)
Finish ==
    /\ AtForHead
    /\ next = Len(image_data.data)
    /\ IF DividesByZero(nodes)
       THEN /\ pc' = "panicked"
            /\ result' = result
       ELSE \E outcome \in Outcomes(StatsOverflows(nodes, LeavesInOrder(nodes, <<>>), 1, <<>>)) :
                IF outcome = "panic"
                THEN /\ pc' = "overflowed"
                     /\ result' = result
                ELSE /\ pc' = "returned"
                     /\ LET map == colors_stats(nodes, <<>>, <<>>)
                        IN  \E order \in IterationOrders(map) :
                                result' = Ok(SortByCount(RecordList(map, order)),
                                             image_data.width, image_data.height)
    /\ UNCHANGED <<file, max_color, run, nodes, leaf_num, to_reduce, image_data,
                   next, reduce_calls, prev>>

(* A second call of load_with_maxcolor with the same path and max_color. *)
ReRun ==
    /\ pc = "returned"
    /\ run = 1
    /\ run' = 2
    /\ prev' = result
    /\ result' = NoResult
    /\ pc' = "call"
    /\ UNCHANGED <<file, max_color, nodes, leaf_num, to_reduce, image_data,
                   next, reduce_calls>>

Next == Open \/ AddColor \/ ReduceTree \/ Finish \/ ReRun

Spec == Init /\ [][Next]_vars

----------------------------------------------------------------------------
(* Large images. A call on an Rgb8 image that begins with lead.n pixels of
   one colour, lead.pixel, is taken up where the for loop of line 76 has
   consumed those pixels: image.pixels, image_data.data and next spell out
   only the pixels after them. *)

(* 255 * 16843009 = 2^32 - 1: the largest count of pixels of value 255 whose
   channel sum is still a u32. *)
LeadCounts == 16843007 .. 16843009

LeadColors == { <<255, 255, 255>>, <<255, 0, 0>>, <<10, 20, 30>> }

(* The pixels after the lead: up to MaxPixels of the lead's colour or green. *)
LateTails(p) == UNION { [1 .. len -> { p, <<0, 255, 0>> }] : len \in 0 .. MaxPixels }

LateImages ==
    UNION { { [color  |-> "Rgb8",
               width  |-> n + Len(px),
               height |-> 1,
               pixels |-> px,
               lead   |-> [n |-> n, pixel |-> p]] :
                  n \in LeadCounts, px \in LateTails(p) } :
            p \in LeadColors }

(* The tree after n pixels of the colour rgb, n * 255 < 2^32: the first
   add_color makes the path to a leaf of depth 7 and every add_color, finding
   leaf_num = 1 <= max_color unchanged, adds 1 and the colour to that leaf
   (lines 114-117). *)
LateTree(rgb, n) ==
    LET t  == add_color(OcTreeNew, <<>>, rgb, 0)
        id == CHOOSE x \in DOMAIN t.nodes : t.nodes[x].is_leaf
    IN  [t EXCEPT !.nodes[id] = [@ EXCEPT !.pixel_count = n,
                                          !.r = U32Mul(n, rgb.r),
                                          !.g = U32Mul(n, rgb.g),
                                          !.b = U32Mul(n, rgb.b)]]

LateInit ==
    /\ file \in { [open |-> "Ok", image |-> img] : img \in LateImages }
    /\ max_color \in Budgets \ { 0 }
    /\ pc = "while"
    /\ run = 1
    /\ LET t == LateTree(RGBFrom(file.image.lead.pixel), file.image.lead.n)
       IN  /\ nodes = t.nodes
           /\ leaf_num = t.leaf_num
           /\ to_reduce = t.to_reduce
    /\ image_data = [data   |-> [i \in 1 .. Len(file.image.pixels) |->
                                    RGBFrom(file.image.pixels[i])],
                     width  |-> file.image.width,
                     height |-> file.image.height]
    /\ next = 0
    /\ reduce_calls = 0
    /\ result = NoResult
    /\ prev = NoResult

LateNext == AddColor \/ ReduceTree \/ Finish

LateSpec == LateInit /\ [][LateNext]_vars

----------------------------------------------------------------------------
(* What the claims speak about *)

Decoded == file.open = "Ok" /\ file.image.color \in { "Rgb8", "Rgba8" }

Returned == pc = "returned" /\ result.status = "Ok"

(* The positions of the image's pixels that are not discarded: all of a
   3-channel image, those with alpha > 0 of a 4-channel image. *)
KeptPositions ==
    { i \in 1 .. Len(file.image.pixels) :
        file.image.color = "Rgb8" \/ file.image.pixels[i][4] > 0 }

KeptColors == { RGBFrom(file.image.pixels[i]) : i \in KeptPositions }

PixelsOfColor(c) ==
    Cardinality({ i \in KeptPositions : RGBFrom(file.image.pixels[i]) = c })

RECURSIVE SumCounts(_)
SumCounts(list) ==
    IF list = << >> THEN 0 ELSE Head(list).count + SumCounts(Tail(list))

RecordSet(list) == { list[i] : i \in 1 .. Len(list) }

(* C1: when the driver has returned for a max_color >= 1, the number of
   output Records is at most max_color. *)
C1_LeafBudget ==
    (Returned /\ max_color >= 1) => Len(result.list) <= max_color

C1_Witness ==
    /\ Returned
    /\ max_color >= 1
    /\ reduce_calls > 0
    /\ Len(result.list) = max_color
    /\ Cardinality(KeptColors) > max_color

(* C2: the counts of the output Records sum to the number of pixels that were
   inserted: all pixels of a 3-channel image, the pixels with alpha > 0 of a
   4-channel image; for every max_color. *)
C2_CountConservation ==
    Returned => /\ next = Cardinality(KeptPositions)
                /\ SumCounts(result.list) = Cardinality(KeptPositions)

C2_Witness ==
    /\ Returned
    /\ reduce_calls > 0
    /\ file.image.color = "Rgba8"
    /\ Cardinality(KeptPositions) = 2
    /\ Len(file.image.pixels) = 3
    /\ Len(result.list) = 1

(* C3: for every valid pixel sequence and every positive max_color the
   quantization completes and returns: the while loop after each insert exits
   after finitely many reduce calls. The driver is deterministic sequential
   code, so it fails to return exactly when it reaches the while loop with
   leaf_num > max_color in a tree that reduce_tree leaves as it is: the loop
   condition then holds again after every call. *)
C3_Termination ==
    (Decoded /\ max_color >= 1) =>
        ~( /\ pc = "while"
           /\ OverBudget(leaf_num, max_color)
           /\ LET t == [nodes |-> nodes, leaf_num |-> leaf_num, to_reduce |-> to_reduce,
                         overflow |-> FALSE]
              IN  reduce_tree(t) = t )

(* C4: in the returned list count[i] >= count[i+1] for every adjacent pair. *)
C4_MonotonicRanking ==
    Returned =>
        \A i \in 1 .. Len(result.list) - 1 :
            result.list[i].count >= result.list[i + 1].count

C4_Witness ==
    /\ Returned
    /\ Len(result.list) >= 2
    /\ result.list[1].count > result.list[Len(result.list)].count

(* C5: a second run on the same pixel sequence with the same max_color starts
   from a fresh tree and returns the same multiset of (colour, count) pairs
   (the colours of a list are pairwise distinct, so the multiset is a set of
   the list's length) with the same dimensions. *)
C5_Determinism ==
    /\ (run = 2 /\ pc = "for" /\ next = 0) =>
           /\ DOMAIN nodes = { << >> }
           /\ nodes[<< >>] = NodeNew
           /\ leaf_num = 0
           /\ \A l \in 0 .. 7 : to_reduce[l] = << >>
    /\ (run = 2 /\ pc = "returned") =>
           /\ result.status = prev.status
           /\ result.err = prev.err
           /\ result.width = prev.width
           /\ result.height = prev.height
           /\ Len(result.list) = Len(prev.list)
           /\ RecordSet(result.list) = RecordSet(prev.list)

C5_Witness ==
    /\ run = 2
    /\ Returned
    /\ Len(result.list) >= 2
    /\ result.list # prev.list

(* C6, for the images of at most MaxPixels pixels: when all n >= 1 inserted
   pixels have the same colour c and max_color >= 1, reduce is never invoked
   and the output is exactly one Record, with colour c and count n. *)
C6_SingleColour ==
    (Decoded /\ max_color >= 1 /\ Cardinality(KeptColors) = 1) =>
        /\ reduce_calls = 0
        /\ ~(pc = "while" /\ OverBudget(leaf_num, max_color))
        /\ Returned =>
               result.list = << [rgb   |-> CHOOSE c \in KeptColors : TRUE,
                                 count |-> Cardinality(KeptPositions)] >>

(* C6, for every n: an image of file.image.lead.n + Len(file.image.pixels)
   pixels, all of the colour file.image.lead.pixel, loaded with max_color >= 1,
   is never reduced, does not panic, and returns exactly one Record, with that
   colour and the number of pixels as its count. *)
C6_SingleColourAnyCount ==
    (/\ max_color >= 1
     /\ \A i \in 1 .. Len(file.image.pixels) :
            file.image.pixels[i] = file.image.lead.pixel) =>
        /\ reduce_calls = 0
        /\ ~(pc = "while" /\ OverBudget(leaf_num, max_color))
        /\ pc \notin { "overflowed", "panicked" }
        /\ Returned =>
               result.list = << [rgb   |-> RGBFrom(file.image.lead.pixel),
                                 count |-> file.image.lead.n + Len(file.image.pixels)] >>

C6_Witness ==
    /\ Returned
    /\ max_color = 1
    /\ Cardinality(KeptColors) = 1
    /\ Cardinality(KeptPositions) = 3
    /\ result.list = << [rgb |-> [r |-> 10, g |-> 20, b |-> 30], count |-> 3] >>

(* C7: when the pixel sequence has k distinct colours and k <= max_color, the
   output has exactly k Records, one per distinct input colour, each with
   that exact colour and the number of pixels of that colour as its count. *)
C7_DistinctKeptExactly ==
    (Returned /\ Cardinality(KeptColors) <= max_color) =>
        /\ Len(result.list) = Cardinality(KeptColors)
        /\ RecordSet(result.list) =
               { [rgb |-> c, count |-> PixelsOfColor(c)] : c \in KeptColors }

(* C8: a call with max_color = 0 fails at the entry point with an
   InvalidConfiguration error: no pixel is inserted, reduce is not called and
   no result list is returned. *)
C8_ZeroBudgetRejected ==
    max_color = 0 =>
        /\ next = 0
        /\ reduce_calls = 0
        /\ (pc = "returned" /\ Decoded) => result = Err("InvalidConfiguration")

(* C9: a pixel of a 4-channel image with alpha = 0 is never inserted; when
   every pixel has alpha = 0 no insert or reduce happens, leaf_num stays 0 and
   the output list is empty, with the image's width and height returned. *)
C9_TransparentDiscarded ==
    (Decoded /\ file.image.color = "Rgba8" /\ pc \in { "for", "while", "returned" }) =>
        /\ Len(image_data.data) = Cardinality(KeptPositions)
        /\ \A k \in 1 .. Len(image_data.data) : image_data.data[k] \in KeptColors
        /\ next <= Cardinality(KeptPositions)
        /\ KeptPositions = {} =>
               /\ next = 0
               /\ reduce_calls = 0
               /\ leaf_num = 0
               /\ DOMAIN nodes = { << >> }
               /\ pc = "returned" =>
                      result = Ok(<< >>, file.image.width, file.image.height)

C9_Witness ==
    /\ Returned
    /\ file.image.color = "Rgba8"
    /\ Len(file.image.pixels) = 2
    /\ KeptPositions = {}
    /\ result.width = 2

(* C10: after every insert and every reduce, leaf_num equals the number of
   nodes in the tree whose is_leaf flag is true (stated for max_color >= 1). *)
C10_LeafNumCountsLeaves ==
    max_color >= 1 =>
        leaf_num = Cardinality({ id \in DOMAIN nodes : nodes[id].is_leaf })

(* A step of the for loop that inserts the next pixel, and a step of the
   while loop in which reduce_tree is called, told by what they do to the
   driver's position. *)
InsertStep == next' = next + 1

ReduceStep == pc = "while" /\ pc' = "while" /\ next' = next /\ max_color < leaf_num

(* C11: when the driver has finished the insert-then-reduce step of a pixel
   (it moves on to the next pixel or to the aggregation) leaf_num <= max_color;
   one insert raises leaf_num by at most 1; leaf_num never exceeds
   max_color + 1. *)
C11_BudgetAtQuiescence ==
    /\ [](leaf_num <= max_color + 1)
    /\ [][ /\ InsertStep => (leaf_num <= max_color /\ leaf_num' <= leaf_num + 1)
           /\ (pc = "while" /\ pc' = "returned") => leaf_num <= max_color ]_vars

C11_Witness ==
    /\ pc = "while"
    /\ max_color >= 1
    /\ next = 3
    /\ leaf_num = max_color + 1
    /\ reduce_calls > 0

(* C12: whenever every level of the reducible registry is empty,
   leaf_num <= max_color: every reduce call the driver makes finds a
   candidate (stated for max_color >= 1). *)
C12_NoOpOnlyWithinBudget ==
    (max_color >= 1 /\ \A l \in 0 .. 7 : to_reduce[l] = << >>) => leaf_num <= max_color

(* The nodes of the tree ns that are leaves, and those a descent from the
   root can end in: leaves with no leaf above them. *)
Leaves(ns) == { id \in DOMAIN ns : ns[id].is_leaf }

SurvivingLeaves(ns) ==
    { id \in Leaves(ns) : \A j \in 0 .. Len(id) - 1 : ~ns[SubSeq(id, 1, j)].is_leaf }

ChildrenOf(ns, id) == { Append(id, i) : i \in ns[id].children }

IsPrefix(a, b) == Len(a) <= Len(b) /\ SubSeq(b, 1, Len(a)) = a

RECURSIVE SumField(_, _, _)
SumField(ns, ids, field) ==
    IF ids = {} THEN 0
    ELSE LET x == CHOOSE y \in ids : TRUE
         IN  ns[x][field] + SumField(ns, ids \ { x }, field)

HasCandidate == \E l \in 0 .. 6 : to_reduce[l] # << >>

DeepestNonEmpty == CHOOSE l \in 0 .. 6 : to_reduce[l] # << >> /\ \A m \in (l + 1) .. 6 : to_reduce[m] = << >>

Chosen == to_reduce[DeepestNonEmpty][Len(to_reduce[DeepestNonEmpty])]

(* What C13 says of a reduce that finds a candidate, but for the fate of the
   children and the totals. *)
ReduceMerges ==
    LET id == Chosen
        cs == ChildrenOf(nodes, id)
    IN  /\ to_reduce' = [to_reduce EXCEPT ![DeepestNonEmpty] = SubSeq(@, 1, Len(@) - 1)]
        /\ nodes'[id].is_leaf
        /\ nodes'[id].pixel_count = SumField(nodes, cs, "pixel_count")
        /\ nodes'[id].r = SumField(nodes, cs, "r")
        /\ nodes'[id].g = SumField(nodes, cs, "g")
        /\ nodes'[id].b = SumField(nodes, cs, "b")
        /\ leaf_num' = leaf_num + 1 - Cardinality(cs)
        /\ \A n \in DOMAIN nodes : ~IsPrefix(id, n) => (n \in DOMAIN nodes' /\ nodes'[n] = nodes[n])

(* C13: a reduce that finds a candidate takes the last node of the deepest
   nonempty registry level; the node becomes a leaf holding the sums of its k
   present children; the children are discarded; leaf_num changes by 1 - k;
   the totals over all leaves of the tree and every node outside the chosen
   subtree are unchanged (stated for max_color >= 1). *)
C13_ReduceEffect ==
    [][ (max_color >= 1 /\ ReduceStep /\ HasCandidate) =>
            /\ ReduceMerges
            /\ nodes'[Chosen].children = {}
            /\ \A c \in ChildrenOf(nodes, Chosen) : c \notin DOMAIN nodes'
            /\ \A f \in { "pixel_count", "r", "g", "b" } :
                   SumField(nodes', Leaves(nodes'), f) = SumField(nodes, Leaves(nodes), f) ]_vars

(* The octants a colour takes from the root down to depth n. *)
ColourPath(rgb, n) == [d \in 1 .. n |-> OctantIndex(rgb, d - 1)]

(* C14: within a run a node that is a leaf stays a leaf; an insert that
   reaches a leaf adds 1 to its pixel_count and the colour to its sums and
   stops there: no node is created and nothing else changes. *)
C14_LeafIsFinal ==
    [][ pc # "call" =>
          /\ \A id \in Leaves(nodes) : id \in DOMAIN nodes' /\ nodes'[id].is_leaf
          /\ InsertStep =>
               LET rgb == image_data.data[next + 1]
               IN  \A id \in SurvivingLeaves(nodes) :
                       id = ColourPath(rgb, Len(id)) =>
                           /\ nodes' = [nodes EXCEPT ![id] =
                                           [@ EXCEPT !.pixel_count = @ + 1,
                                                     !.r = @ + rgb.r,
                                                     !.g = @ + rgb.g,
                                                     !.b = @ + rgb.b]]
                           /\ leaf_num' = leaf_num
                           /\ to_reduce' = to_reduce ]_vars

(* A leaf made by a reduce has since taken a pixel of its own. *)
C14_Witness ==
    /\ max_color >= 1
    /\ \E id \in SurvivingLeaves(nodes) :
           /\ Len(id) < 7
           /\ nodes[id].pixel_count > SumField(nodes, ChildrenOf(nodes, id), "pixel_count")

Registered(l) == { to_reduce[l][i] : i \in 1 .. Len(to_reduce[l]) }

(* C15: a node of depth 7 is a leaf and is in no registry; every registered
   node is a branch of depth below 7, registered once, at the level equal to
   its depth; a node created below the root at depth below 7 is registered
   exactly as long as no reduce has made it a leaf. *)
C15_RegistryHoldsBranches ==
    /\ \A id \in DOMAIN nodes : Len(id) = 7 => nodes[id].is_leaf
    /\ \A l \in 0 .. 7 : \A i \in 1 .. Len(to_reduce[l]) :
           LET id == to_reduce[l][i]
           IN  /\ id \in DOMAIN nodes
               /\ ~nodes[id].is_leaf
               /\ Len(id) = l
               /\ l < 7
               /\ \A j \in 1 .. Len(to_reduce[l]) : to_reduce[l][j] = id => j = i
    /\ \A id \in DOMAIN nodes :
           (Len(id) >= 1 /\ Len(id) < 7) =>
               ((\E i \in 1 .. Len(to_reduce[Len(id)]) : to_reduce[Len(id)][i] = id)
                    <=> ~nodes[id].is_leaf)

(* A reduce has made a branch a leaf while other branches are still
   registered and depth-7 leaves exist. *)
C15_Witness ==
    /\ reduce_calls > 0
    /\ \E id \in DOMAIN nodes : Len(id) = 7
    /\ \E id \in DOMAIN nodes : Len(id) = 6 /\ nodes[id].is_leaf
    /\ \E l \in 1 .. 6 : Len(to_reduce[l]) >= 2

TruncatedMean(node) ==
    [r |-> node.r \div node.pixel_count,
     g |-> node.g \div node.pixel_count,
     b |-> node.b \div node.pixel_count]

(* C16: the records returned have pairwise distinct colours; the count of the
   record of colour q is the sum of pixel_count over the surviving leaves whose
   truncated per-channel mean is q, and the mean of every surviving leaf has a
   record. *)
C16_Aggregation ==
    Returned =>
        LET list == result.list
            live == SurvivingLeaves(nodes)
        IN  /\ \A i, j \in 1 .. Len(list) : list[i].rgb = list[j].rgb => i = j
            /\ \A i \in 1 .. Len(list) :
                   list[i].count =
                       SumField(nodes,
                                { id \in live : TruncatedMean(nodes[id]) = list[i].rgb },
                                "pixel_count")
            /\ \A id \in live :
                   \E i \in 1 .. Len(list) : list[i].rgb = TruncatedMean(nodes[id])

(* Two records are returned after a reduce, one of a colour no pixel has. *)
C16_Witness ==
    /\ Returned
    /\ reduce_calls > 0
    /\ Len(result.list) >= 2
    /\ \E i \in 1 .. Len(result.list) :
           /\ result.list[i].rgb \notin KeptColors
           /\ result.list[i].count >= 2

(* C17: the node a reduce takes out of the registry has at least one child,
   each of its children is a leaf, and leaf_num is at least the number of its
   children; leaf_num never goes below 0. *)
C17_ReduceSelectsParentOfLeaves ==
    /\ [](leaf_num >= 0)
    /\ [][ ReduceStep =>
             \A l \in 0 .. 7 : \A id \in Registered(l) :
                 (\A i \in 1 .. Len(to_reduce'[l]) : to_reduce'[l][i] # id) =>
                     /\ nodes[id].children # {}
                     /\ \A c \in ChildrenOf(nodes, id) :
                            c \in DOMAIN nodes /\ nodes[c].is_leaf
                     /\ leaf_num >= Cardinality(nodes[id].children) ]_vars

(* A reduce has merged two leaves into their parent, and an earlier reduce
   had made a leaf of one of them. *)
C17_Witness ==
    /\ reduce_calls >= 2
    /\ \E id \in SurvivingLeaves(nodes) :
           /\ Len(id) < 7
           /\ Cardinality(nodes[id].children) >= 2
    /\ \E id \in SurvivingLeaves(nodes) :
           /\ Len(id) < 6
           /\ nodes[id].children # {}

(* C18: between steps every leaf reachable from the root has pixel_count >= 1
   and each of its channel means lies in 0..255; colors_stats never divides
   by zero. *)
C18_LeavesHoldPixels ==
    /\ pc # "panicked"
    /\ \A id \in SurvivingLeaves(nodes) :
           /\ nodes[id].pixel_count >= 1
           /\ \A f \in { "r", "g", "b" } :
                  nodes[id][f] \div nodes[id].pixel_count \in 0 .. 255

(* The call has returned after a reduce: one leaf has a mean of 255 in a
   channel, one leaf holds two pixels. *)
C18_Witness ==
    /\ Returned
    /\ reduce_calls > 0
    /\ \E id \in SurvivingLeaves(nodes) :
           Len(id) < 7 /\ TruncatedMean(nodes[id]).r = 255
    /\ \E id \in SurvivingLeaves(nodes) : nodes[id].pixel_count >= 2

(* C19: a registered branch has pixel_count 0; a step of a run leaves each
   registry level as it is, or an insert appends to it without reordering
   what it held, or a reduce removes the last, most recently registered,
   element of the deepest non-empty level. *)
C19_LastRegisteredFirst ==
    /\ [](\A l \in 0 .. 7 : \A id \in Registered(l) : nodes[id].pixel_count = 0)
    /\ [][ pc # "call" =>
             \A l \in 0 .. 7 :
                 \/ to_reduce'[l] = to_reduce[l]
                 \/ /\ InsertStep
                    /\ Len(to_reduce'[l]) = Len(to_reduce[l]) + 1
                    /\ SubSeq(to_reduce'[l], 1, Len(to_reduce[l])) = to_reduce[l]
                 \/ /\ ReduceStep
                    /\ l = DeepestNonEmpty
                    /\ to_reduce'[l] = SubSeq(to_reduce[l], 1, Len(to_reduce[l]) - 1) ]_vars

(* A reduce has taken the branch registered last at depth 6, which held two
   pixels, and left registered an older branch that holds one. *)
C19_Witness ==
    /\ reduce_calls > 0
    /\ \E lf \in SurvivingLeaves(nodes) :
           /\ Len(lf) = 6
           /\ nodes[lf].pixel_count = 2
    /\ \E id \in Registered(6) :
           SumField(nodes, ChildrenOf(nodes, id), "pixel_count") = 1

(* The path of 7 octants read from the 7 most significant bits of each
   channel: c \div 2 drops the least significant bit. *)
Top7Bit(c, d) == ((c \div 2) \div (2 ^ (7 - d))) % 2
Top7Path(rgb) ==
    [d \in 1 .. 7 |-> Top7Bit(rgb.r, d) * 4 + Top7Bit(rgb.g, d) * 2 + Top7Bit(rgb.b, d)]

(* The top-7-bit paths of the pixels inserted so far. *)
InsertedPaths == [i \in 1 .. next |-> Top7Path(image_data.data[i])]

(* The inserted pixels whose path, in paths, passes through id. *)
InsertedBelow(paths, id) == { i \in DOMAIN paths : IsPrefix(id, paths[i]) }

RECURSIVE SumChannel(_, _)
SumChannel(idx, f) ==
    IF idx = {} THEN 0
    ELSE LET i == CHOOSE j \in idx : TRUE
         IN  image_data.data[i][f] + SumChannel(idx \ { i }, f)

(* C20: the leaf a pixel is folded into is decided by the 7 most significant
   bits of its channels alone: while the pixels are inserted, every node lies
   on the top-7-bit path of an inserted pixel, and every surviving leaf holds
   exactly the inserted pixels whose top-7-bit path passes through it, so two
   colours that agree on those bits are in the same leaf. *)
C20_LowBitIgnored ==
    pc \in { "for", "while" } =>
        LET paths == InsertedPaths
            live  == SurvivingLeaves(nodes)
        IN  /\ \A id \in DOMAIN nodes : id = << >> \/ InsertedBelow(paths, id) # {}
            /\ \A id \in live :
                   LET below == InsertedBelow(paths, id)
                   IN  /\ nodes[id].pixel_count = Cardinality(below)
                       /\ \A f \in { "r", "g", "b" } : nodes[id][f] = SumChannel(below, f)
            /\ \A i \in 1 .. next : \E id \in live : IsPrefix(id, paths[i])

(* Two colours that differ in a least significant bit only share a depth-7
   leaf, next to a leaf of another colour. *)
C20_Witness ==
    /\ max_color >= 1
    /\ \E i, j \in 1 .. next :
           /\ image_data.data[i] # image_data.data[j]
           /\ Top7Path(image_data.data[i]) = Top7Path(image_data.data[j])
           /\ \E id \in SurvivingLeaves(nodes) :
                  /\ Len(id) = 7
                  /\ { i, j } \subseteq InsertedBelow(InsertedPaths, id)
                  /\ nodes[id].pixel_count = 2
    /\ Cardinality(SurvivingLeaves(nodes)) >= 2

====
